---- MODULE Spec2Model ----
(***************************************************************************)
(* Model of gnomad/assessment/summary_stats.py: the frequency binner       *)
(* freq_bin_expr, the category counter builder get_summary_counts_dict and *)
(* the pipeline get_summary_counts.                                        *)
(*                                                                         *)
(* Values that may be missing are sequences of length at most one: <<>> is *)
(* the missing value and <<x>> the defined value x.  Boolean expressions   *)
(* are three-valued: <<TRUE>>, <<FALSE>> or missing.                       *)
(* Allele frequencies are exact integers in parts per million, so that     *)
(* 1e-4 is 100 and 0.95 is 950000.                                         *)
(***************************************************************************)
EXTENDS Integers, Sequences, FiniteSets, TLC

VARIABLES
    pc,           \* position in the operation under evaluation
    freq_expr,    \* freq_bin_expr: the array of frequency records
    index,        \* freq_bin_expr: the selected index (0-based)
    label,        \* freq_bin_expr: the returned label, missing before the call
    grp,          \* get_summary_counts_dict: the rows being aggregated
    prefix_str,   \* get_summary_counts_dict: the category name prefix
    counts,       \* get_summary_counts_dict: the aggregated dictionary
    input,        \* get_summary_counts: the table passed in
    filter_decoy, \* get_summary_counts: whether decoy regions are excluded
    ht,           \* get_summary_counts: the local table ht, rows and globals
    result        \* get_summary_counts: the returned table, missing before

binVars == <<freq_expr, index, label>>
cntVars == <<grp, prefix_str, counts>>
pipeVars == <<input, filter_decoy, ht, result>>
vars == <<pc, freq_expr, index, label, grp, prefix_str, counts,
          input, filter_decoy, ht, result>>

\* ---------------------------------------------------------------- bounds
MaxAC == 7
FreqLen == 2
MaxGroup == 2
MaxRows == 2

\* ------------------------------------------------- expression semantics
NA == <<>>
Some(x) == <<x>>
is_defined(v) == v # NA
IsTrue(c) == c = Some(TRUE)

EqLit(a, lit) == IF a = NA THEN NA ELSE Some(a[1] = lit)
LeLit(a, lit) == IF a = NA THEN NA ELSE Some(a[1] <= lit)
\* mutant: the threshold itself falls in the lower bin
LtLit_le(a, lit) == IF a = NA THEN NA ELSE Some(a[1] <= lit)
LtLit(a, lit) == IF a = NA THEN NA ELSE Some(a[1] < lit)
GtLit(a, lit) == IF a = NA THEN NA ELSE Some(a[1] > lit)

\* mutant: | written for &
And3_or(a, b) ==
    IF a = Some(TRUE) \/ b = Some(TRUE) THEN Some(TRUE)
    ELSE IF a = NA \/ b = NA THEN NA
    ELSE Some(FALSE)

And3(a, b) ==
    IF a = Some(FALSE) \/ b = Some(FALSE) THEN Some(FALSE)
    ELSE IF a = NA \/ b = NA THEN NA
    ELSE Some(TRUE)

\* mutant: a missing condition taken as a match
hl_case_missing_match(whens, default) ==
    LET hits == {i \in 1..Len(whens) : whens[i][1] # Some(FALSE)}
    IN  IF hits = {} THEN default
        ELSE whens[CHOOSE i \in hits : \A j \in hits : i <= j][2]

\* hl.case(missing_false=True).when(c1, v1)...default(d): the value of the
\* first branch whose condition is true; a missing condition is not a match.
hl_case(whens, default) ==
    LET hits == {i \in 1..Len(whens) : IsTrue(whens[i][1])}
    IN  IF hits = {} THEN default
        ELSE whens[CHOOSE i \in hits : \A j \in hits : i <= j][2]

\* A table: its rows in order and its globals (a dictionary).
EmptyGlobals == [k \in {} |-> 0]
EmptyTable == [rows |-> <<>>, globals |-> EmptyGlobals]

\* ------------------------------------------------------ freq_bin_expr
AF_1e4 == 100
AF_1e3 == 1000
AF_1e2 == 10000
AF_1e1 == 100000
AF_95 == 950000

Labels ==
    {"Not found", "Singleton", "Doubleton", "AC 3 - 5", "AC 6 - 0.01%",
     "0.01% - 0.1%", "0.1% - 1%", "1% - 10%", ">95%", "10% - 95%"}

\* mutant: the >95% rule consulted before the AC rules
freq_bin_expr_af_first(freq, idx) ==
    LET rec == freq[idx + 1]
    IN  hl_case(
          << <<GtLit(rec.AF, AF_95), ">95%">>,
             <<EqLit(rec.AC, 0), "Not found">>,
             <<EqLit(rec.AC, 1), "Singleton">>,
             <<EqLit(rec.AC, 2), "Doubleton">>,
             <<LeLit(rec.AC, 5), "AC 3 - 5">>,
             <<LtLit(rec.AF, AF_1e4), "AC 6 - 0.01%">>,
             <<LtLit(rec.AF, AF_1e3), "0.01% - 0.1%">>,
             <<LtLit(rec.AF, AF_1e2), "0.1% - 1%">>,
             <<LtLit(rec.AF, AF_1e1), "1% - 10%">> >>,
          "10% - 95%")

\* freq_expr is 1-indexed here; the source's index i is position i + 1.
freq_bin_expr(freq, idx) ==
    LET rec == freq[idx + 1]
    IN  hl_case(
          << <<EqLit(rec.AC, 0), "Not found">>,
             <<EqLit(rec.AC, 1), "Singleton">>,
             <<EqLit(rec.AC, 2), "Doubleton">>,
             <<LeLit(rec.AC, 5), "AC 3 - 5">>,
             <<LtLit(rec.AF, AF_1e4), "AC 6 - 0.01%">>,
             <<LtLit(rec.AF, AF_1e3), "0.01% - 0.1%">>,
             <<LtLit(rec.AF, AF_1e2), "0.1% - 1%">>,
             <<LtLit(rec.AF, AF_1e1), "1% - 10%">>,
             <<GtLit(rec.AF, AF_95), ">95%">> >>,
          "10% - 95%")

\* ----------------------------------------------------- binner inputs
ACVals == {NA} \cup {Some(n) : n \in 0..MaxAC} \cup {Some(1000)}
AFPoints ==
    {0, 20, 90, 99, 100, 101, 999, 1000, 1001, 9999, 10000, 10001, 99999,
     100000, 100001, 500000, 949999, 950000, 950001, 960000, 990000, 1000000}
AFVals == {NA} \cup {Some(f) : f \in AFPoints}
FreqRecords == [AC : ACVals, AF : AFVals]
\* what the positions other than the selected one may hold
OtherRecords == {[AC |-> Some(0), AF |-> Some(0)], [AC |-> Some(1000), AF |-> Some(990000)]}

InitBin ==
    /\ pc = "bin"
    /\ \E rec \in FreqRecords, other \in OtherRecords, i \in 0..(FreqLen - 1) :
          /\ index = i
          /\ freq_expr = [k \in 1..FreqLen |-> IF k = i + 1 THEN rec ELSE other]
    /\ label = NA
    /\ grp = <<>>
    /\ prefix_str = ""
    /\ counts = NA
    /\ input = EmptyTable
    /\ filter_decoy = FALSE
    /\ ht = EmptyTable
    /\ result = NA

EvalFreqBin ==
    /\ pc = "bin"
    /\ label' = Some(freq_bin_expr(freq_expr, index))
    /\ pc' = "binned"
    /\ UNCHANGED <<freq_expr, index, cntVars, pipeVars>>

NextBin == EvalFreqBin

SpecBin == InitBin /\ [][NextBin]_vars

\* ------------------------------------------------- claims on the binner
Rec == freq_expr[index + 1]
Binned == pc = "binned"

\* The ordered table of section 4.1, over a record whose AC and AF are defined.
TablePreds(ac, af) ==
    << ac = 0, ac = 1, ac = 2, ac <= 5, af < 100, af < 1000, af < 10000,
       af < 100000, af > 950000 >>
TableLabels ==
    << "Not found", "Singleton", "Doubleton", "AC 3 - 5", "AC 6 - 0.01%",
       "0.01% - 0.1%", "0.1% - 1%", "1% - 10%", ">95%" >>

\* C1: with AC and AF defined the label is one of the ten labels, it is the
\* label of the first predicate of the ordered table that holds (the fallback
\* "10% - 95%" when none holds), and the AF comparisons are strict: with
\* AC >= 6 an AF equal to a threshold gets the next higher bin and AF = 0.95
\* gets "10% - 95%".
C1_FirstMatchStrict ==
    (Binned /\ is_defined(Rec.AC) /\ is_defined(Rec.AF)) =>
        LET ac == Rec.AC[1]
            af == Rec.AF[1]
            P == TablePreds(ac, af)
        IN  /\ is_defined(label)
            /\ label[1] \in Labels
            /\ \A k \in 1..Len(P) :
                  (P[k] /\ \A j \in 1..(k - 1) : ~P[j]) => label[1] = TableLabels[k]
            /\ (\A k \in 1..Len(P) : ~P[k]) => label[1] = "10% - 95%"
            /\ (ac >= 6 /\ af = 100) => label[1] = "0.01% - 0.1%"
            /\ (ac >= 6 /\ af = 1000) => label[1] = "0.1% - 1%"
            /\ (ac >= 6 /\ af = 10000) => label[1] = "1% - 10%"
            /\ (ac >= 6 /\ af = 100000) => label[1] = "10% - 95%"
            /\ (ac >= 6 /\ af = 950000) => label[1] = "10% - 95%"

C1_Witness ==
    /\ Binned
    /\ Rec.AC = Some(6)
    /\ Rec.AF = Some(100)
    /\ label = Some("0.01% - 0.1%")

\* The label the AF rules alone give to a defined AF.
AFOnlyLabel(af) ==
    IF af < 100 THEN "AC 6 - 0.01%"
    ELSE IF af < 1000 THEN "0.01% - 0.1%"
    ELSE IF af < 10000 THEN "0.1% - 1%"
    ELSE IF af < 100000 THEN "1% - 10%"
    ELSE IF af > 950000 THEN ">95%"
    ELSE "10% - 95%"

\* The label the AC rules alone give to a defined AC (fallback when none holds).
ACOnlyLabel(ac) ==
    IF ac = 0 THEN "Not found"
    ELSE IF ac = 1 THEN "Singleton"
    ELSE IF ac = 2 THEN "Doubleton"
    ELSE IF ac <= 5 THEN "AC 3 - 5"
    ELSE "10% - 95%"

\* C2: a predicate over a missing AC or AF is not satisfied, it is neither an
\* error nor a match: the evaluation always yields a label; both fields
\* missing give the fallback "10% - 95%"; one field missing gives the label
\* of the first predicate over the defined field that holds, else the fallback.
C2_MissingNotSatisfied ==
    Binned =>
        /\ is_defined(label)
        /\ label[1] \in Labels
        /\ (Rec.AC = NA /\ Rec.AF = NA) => label[1] = "10% - 95%"
        /\ (Rec.AC = NA /\ Rec.AF # NA) => label[1] = AFOnlyLabel(Rec.AF[1])
        /\ (Rec.AC # NA /\ Rec.AF = NA) => label[1] = ACOnlyLabel(Rec.AC[1])

C2_Witness ==
    /\ Binned
    /\ Rec.AC = NA
    /\ Rec.AF = NA
    /\ label = Some("10% - 95%")

\* C3: for AC in 0..5 the label depends on AC alone, whatever AF is (any
\* value in [0,1], above 0.95 included, or missing).
C3_ACRulesFirst ==
    (Binned /\ Rec.AC # NA /\ Rec.AC[1] \in 0..5) =>
        label =
          Some(CASE Rec.AC[1] = 0 -> "Not found"
                 [] Rec.AC[1] = 1 -> "Singleton"
                 [] Rec.AC[1] = 2 -> "Doubleton"
                 [] Rec.AC[1] \in 3..5 -> "AC 3 - 5")

C3_Witness ==
    /\ Binned
    /\ Rec.AC = Some(5)
    /\ Rec.AF = Some(960000)
    /\ label = Some("AC 3 - 5")

\* ------------------------------------------- get_summary_counts_dict
\* Alleles are sequences of one-character strings.
Bases == {"A", "C", "G", "T"}
IsBases(s) == Len(s) >= 1 /\ \A i \in 1..Len(s) : s[i] \in Bases
EndsWith(s, t) ==
    /\ Len(t) <= Len(s)
    /\ SubSeq(s, Len(s) - Len(t) + 1, Len(s)) = t
Hamming(r, a) == Cardinality({i \in 1..Len(r) : r[i] # a[i]})

\* hl's classification of a (ref, alt) pair.
allele_type(r, a) ==
    IF ~IsBases(r) THEN "Unknown"
    ELSE IF IsBases(a) THEN
        IF Len(r) = Len(a) THEN
            IF Len(r) = 1 THEN (IF r # a THEN "SNP" ELSE "Unknown")
            ELSE IF Hamming(r, a) = 1 THEN "SNP" ELSE "MNP"
        ELSE IF Len(r) < Len(a) /\ r[1] = a[1] /\ EndsWith(a, Tail(r)) THEN "Insertion"
        ELSE IF r[1] = a[1] /\ EndsWith(r, Tail(a)) THEN "Deletion"
        ELSE "Complex"
    ELSE IF a = <<"*">> THEN "Star"
    ELSE "Unknown"

\* mutant: any two different alleles taken as a SNP
is_snp_any(ref, alt) == Some(ref # alt)
is_snp(ref, alt) == Some(allele_type(ref, alt) = "SNP")
is_indel(ref, alt) == Some(allele_type(ref, alt) \in {"Insertion", "Deletion"})

\* hl.agg.count() and hl.agg.count_where(cond) over the rows of a group.  A
\* row expression is held as the column of its values, one per row;
\* count_where counts the rows whose condition is true, not those where it
\* is false or missing.
agg_count(rows) == Len(rows)
agg_count_where(cond) == Cardinality({i \in 1..Len(cond) : IsTrue(cond[i])})

Categories ==
    <<"num_variants", "indels", "snps", "LOF", "pass_loftee",
      "pass_loftee_no_flag", "loftee_os", "fail_loftee">>

\* mutant: LOF counts the high-confidence rows only
get_summary_counts_dict_lof_hc(rows, prefix) ==
    LET col(e(_)) == [i \in 1..Len(rows) |-> e(rows[i])]
        indel(r) == is_indel(r.alleles[1], r.alleles[2])
        snp(r) == is_snp(r.alleles[1], r.alleles[2])
        hc(r) == EqLit(r.lof, "HC")
        hcnoflag(r) == And3(EqLit(r.lof, "HC"), r.no_lof_flags)
        os(r) == EqLit(r.lof, "OS")
        lc(r) == EqLit(r.lof, "LC")
    IN  (prefix \o "num_variants" :> agg_count(rows))
        @@ (prefix \o "indels" :> agg_count_where(col(indel)))
        @@ (prefix \o "snps" :> agg_count_where(col(snp)))
        @@ (prefix \o "LOF" :> agg_count_where(col(hc)))
        @@ (prefix \o "pass_loftee" :> agg_count_where(col(hc)))
        @@ (prefix \o "pass_loftee_no_flag" :> agg_count_where(col(hcnoflag)))
        @@ (prefix \o "loftee_os" :> agg_count_where(col(os)))
        @@ (prefix \o "fail_loftee" :> agg_count_where(col(lc)))

\* The dictionary built over the rows of one group; the row expressions are
\* allele_expr = row.alleles, lof_expr = row.lof, no_lof_flags_expr =
\* row.no_lof_flags.
get_summary_counts_dict(rows, prefix) ==
    LET col(e(_)) == [i \in 1..Len(rows) |-> e(rows[i])]
        indel(r) == is_indel(r.alleles[1], r.alleles[2])
        snp(r) == is_snp(r.alleles[1], r.alleles[2])
        lofdef(r) == Some(is_defined(r.lof))
        hc(r) == EqLit(r.lof, "HC")
        hcnoflag(r) == And3(EqLit(r.lof, "HC"), r.no_lof_flags)
        os(r) == EqLit(r.lof, "OS")
        lc(r) == EqLit(r.lof, "LC")
    IN  (prefix \o "num_variants" :> agg_count(rows))
        @@ (prefix \o "indels" :> agg_count_where(col(indel)))
        @@ (prefix \o "snps" :> agg_count_where(col(snp)))
        @@ (prefix \o "LOF" :> agg_count_where(col(lofdef)))
        @@ (prefix \o "pass_loftee" :> agg_count_where(col(hc)))
        @@ (prefix \o "pass_loftee_no_flag" :> agg_count_where(col(hcnoflag)))
        @@ (prefix \o "loftee_os" :> agg_count_where(col(os)))
        @@ (prefix \o "fail_loftee" :> agg_count_where(col(lc)))

\* ------------------------------------------------- counter inputs
AllelePairs ==
    { << <<"A">>, <<"C">> >>,            \* SNP
      << <<"A">>, <<"A", "C">> >>,       \* insertion
      << <<"A", "C">>, <<"A">> >>,       \* deletion
      << <<"A", "C">>, <<"C", "A">> >>,  \* MNP: neither indel nor SNP
      << <<"A">>, <<"C", "A">> >> }      \* complex: neither indel nor SNP
LofVals == {NA, Some("HC"), Some("LC"), Some("OS"), Some("other")}
Bool3 == {NA, Some(TRUE), Some(FALSE)}
CountRows == [alleles : AllelePairs, lof : LofVals, no_lof_flags : Bool3]

SeqsUpTo(S, n) == UNION {[1..k -> S] : k \in 0..n}

InitCounts ==
    /\ pc = "count"
    /\ grp \in SeqsUpTo(CountRows, MaxGroup)
    /\ prefix_str \in {"", "total_"}
    /\ counts = NA
    /\ freq_expr = <<>>
    /\ index = 0
    /\ label = NA
    /\ input = EmptyTable
    /\ filter_decoy = FALSE
    /\ ht = EmptyTable
    /\ result = NA

Aggregate ==
    /\ pc = "count"
    /\ counts' = Some(get_summary_counts_dict(grp, prefix_str))
    /\ pc' = "counted"
    /\ UNCHANGED <<binVars, grp, prefix_str, pipeVars>>

NextCounts == Aggregate

SpecCounts == InitCounts /\ [][NextCounts]_vars

\* ----------------------------------------------- claims on the counter
Counted == pc = "counted"
Cnt(c) == counts[1][prefix_str \o c]
RowsWith(P(_)) == {i \in 1..Len(grp) : P(grp[i])}

\* C5: in every row group, for every combination of lof and no_lof_flags
\* values, pass_loftee_no_flag <= pass_loftee.
C5_NoFlagLePass ==
    Counted => Cnt("pass_loftee_no_flag") <= Cnt("pass_loftee")

C5_Witness ==
    /\ Counted
    /\ Cnt("pass_loftee") = 2
    /\ Cnt("pass_loftee_no_flag") = 1
    /\ \E i \in 1..Len(grp) : grp[i].lof = Some("HC") /\ grp[i].no_lof_flags = NA

\* C8: over N bi-allelic rows num_variants = N and indels + snps <= N; no
\* row is counted both as an indel and as a SNP.
C8_VariantsIndelsSnps ==
    Counted =>
        /\ Cnt("num_variants") = Len(grp)
        /\ Cnt("indels") + Cnt("snps") <= Len(grp)
        /\ \A i \in 1..Len(grp) :
              LET one == get_summary_counts_dict(<<grp[i]>>, "")
              IN  one["indels"] + one["snps"] <= 1

C8_Witness ==
    /\ Counted
    /\ Len(grp) = 2
    /\ Cnt("num_variants") = 2
    /\ Cnt("indels") = 1
    /\ Cnt("snps") = 0

\* C10: each row counts toward at most one of pass_loftee, loftee_os and
\* fail_loftee, every row counted in one of them has lof defined, so
\* pass_loftee + loftee_os + fail_loftee <= LOF <= num_variants; a row whose
\* lof is missing is counted in none of the five LoF categories.
C10_LofPartition ==
    Counted =>
        /\ Cnt("pass_loftee") + Cnt("loftee_os") + Cnt("fail_loftee") <= Cnt("LOF")
        /\ Cnt("LOF") <= Cnt("num_variants")
        /\ LET isHC(r) == r.lof = Some("HC")
               isOS(r) == r.lof = Some("OS")
               isLC(r) == r.lof = Some("LC")
               isDef(r) == r.lof # NA
           IN  /\ Cnt("pass_loftee") = Cardinality(RowsWith(isHC))
               /\ Cnt("loftee_os") = Cardinality(RowsWith(isOS))
               /\ Cnt("fail_loftee") = Cardinality(RowsWith(isLC))
               /\ Cnt("LOF") = Cardinality(RowsWith(isDef))
        /\ (\A i \in 1..Len(grp) : grp[i].lof = NA) =>
              \A c \in {"LOF", "pass_loftee", "pass_loftee_no_flag",
                        "loftee_os", "fail_loftee"} : Cnt(c) = 0

C10_Witness ==
    /\ Counted
    /\ Len(grp) = 2
    /\ grp[1].lof = Some("other")
    /\ grp[2].lof = NA
    /\ Cnt("LOF") = 1
    /\ Cnt("pass_loftee") + Cnt("loftee_os") + Cnt("fail_loftee") = 0

\* ------------------------------------------------ get_summary_counts
freq_field == "freq"
filter_field == "filters"

\* Table.filter(cond): the rows whose condition is true, in order; cond is
\* the column of the condition's values.
table_filter(t, cond) ==
    LET keep == {i \in 1..Len(t.rows) : IsTrue(cond[i])}
        nth(j) == CHOOSE i \in keep : Cardinality({k \in keep : k <= i}) = j
    IN  [t EXCEPT !.rows = [j \in 1..Cardinality(keep) |-> t.rows[nth(j)]]]

\* Table.annotate(**fields): every row extended by the fields computed on it;
\* fields is the column of the new fields' values.
table_annotate(t, fields) ==
    [t EXCEPT !.rows = [i \in 1..Len(t.rows) |-> fields[i] @@ t.rows[i]]]

\* hl.len of a set that may be missing.
hl_len(s) == IF s = NA THEN NA ELSE Some(Cardinality(s[1]))

\* mutant: the PASS filter left out
filter_pass_none(t) == t

\* ht.filter(hl.len(ht[filter_field]) == 0)
filter_pass(t) ==
    LET cond(r) == EqLit(hl_len(r[filter_field]), 0)
    IN  table_filter(t, [i \in 1..Len(t.rows) |-> cond(t.rows[i])])

\* The low-confidence-region exclusion: a row in a low-complexity region is
\* dropped, and a row in a decoy region is dropped when decoy is set.
filter_low_conf_regions(t, decoy) ==
    LET cond(r) == Some(r.region # "lcr" /\ (decoy => r.region # "decoy"))
    IN  table_filter(t, [i \in 1..Len(t.rows) |-> cond(t.rows[i])])

\* The functional annotations of every row restricted to canonical transcripts.
filter_vep_to_canonical_transcripts(t) ==
    LET canonical(c) == c.canonical
        f(r) == [vep |-> SelectSeq(r.vep, canonical)]
    IN  table_annotate(t, [i \in 1..Len(t.rows) |-> f(t.rows[i])])

\* The most severe consequence summary: lof is the first LOFTEE label carried
\* by a remaining transcript, no_lof_flags says whether a transcript with that
\* label has no flags; both are missing when no transcript has a label.
LOFTEE_LABELS == <<"HC", "LC", "OS">>
get_most_severe_consequence_for_summary(t) ==
    LET has(r, k) == \E i \in 1..Len(r.vep) : r.vep[i].lof = Some(LOFTEE_LABELS[k])
        found(r) == {k \in 1..Len(LOFTEE_LABELS) : has(r, k)}
        lof(r) ==
            IF found(r) = {} THEN NA
            ELSE Some(LOFTEE_LABELS[CHOOSE k \in found(r) : \A j \in found(r) : k <= j])
        f(r) ==
            [lof |-> lof(r),
             no_lof_flags |->
                IF lof(r) = NA THEN NA
                ELSE Some(\E i \in 1..Len(r.vep) :
                            r.vep[i].lof = lof(r) /\ r.vep[i].lof_flags = NA)]
    IN  table_annotate(t, [i \in 1..Len(t.rows) |-> f(t.rows[i])])

\* mutant: the bin taken from the record at index 1
annotate_freq_bin_index1(t) ==
    LET f(r) == [freq_bin |-> freq_bin_expr(r[freq_field], 1)]
    IN  table_annotate(t, [i \in 1..Len(t.rows) |-> f(t.rows[i])])

\* ht.annotate(freq_bin=freq_bin_expr(ht[freq_field]))
annotate_freq_bin(t) ==
    LET f(r) == [freq_bin |-> freq_bin_expr(r[freq_field], 0)]
    IN  table_annotate(t, [i \in 1..Len(t.rows) |-> f(t.rows[i])])

\* ht.annotate_globals(summary_counts=ht.aggregate(struct of the total_ counts))
annotate_total_counts(t) ==
    [t EXCEPT !.globals =
        ("summary_counts" :> get_summary_counts_dict(t.rows, "total_")) @@ t.globals]

\* The order in which a table keyed by freq_bin holds the ten labels.
KeyOrder ==
    <<"0.01% - 0.1%", "0.1% - 1%", "1% - 10%", "10% - 95%", ">95%",
      "AC 3 - 5", "AC 6 - 0.01%", "Doubleton", "Not found", "Singleton">>

\* mutant: the rows that took the default label are left out of the groups
group_by_freq_bin_no_default(t) ==
    LET inbin(k) == LET same(r) == r.freq_bin = KeyOrder[k] /\ r.freq_bin # "10% - 95%"
                    IN  SelectSeq(t.rows, same)
        present(k) == inbin(k) # <<>>
        keys == SelectSeq([k \in 1..Len(KeyOrder) |-> k], present)
    IN  [rows |-> [j \in 1..Len(keys) |->
                     [freq_bin |-> KeyOrder[keys[j]]]
                       @@ get_summary_counts_dict(inbin(keys[j]), "")],
         globals |-> t.globals]

\* mutant: one group per row instead of one per label
group_by_freq_bin_per_row(t) ==
    [rows |-> [j \in 1..Len(t.rows) |->
                 [freq_bin |-> t.rows[j].freq_bin]
                   @@ get_summary_counts_dict(<<t.rows[j]>>, "")],
     globals |-> t.globals]

\* ht.group_by("freq_bin").aggregate(**get_summary_counts_dict(...)): one row
\* per value of freq_bin held by some row, with the counts over those rows;
\* the globals are kept.
group_by_freq_bin(t) ==
    LET inbin(k) == LET same(r) == r.freq_bin = KeyOrder[k]
                    IN  SelectSeq(t.rows, same)
        present(k) == inbin(k) # <<>>
        keys == SelectSeq([k \in 1..Len(KeyOrder) |-> k], present)
    IN  [rows |-> [j \in 1..Len(keys) |->
                     [freq_bin |-> KeyOrder[keys[j]]]
                       @@ get_summary_counts_dict(inbin(keys[j]), "")],
         globals |-> t.globals]

\* ---------------------------------------------------- pipeline inputs
PipeFreqRecords ==
    { [AC |-> Some(0), AF |-> Some(0)],
      [AC |-> Some(6), AF |-> Some(20)],
      [AC |-> NA, AF |-> NA] }
MkFreq(rec) ==
    [k \in 1..FreqLen |-> IF k = 1 THEN rec ELSE [AC |-> Some(1000), AF |-> Some(990000)]]
Csq(can, lof, flags) == [canonical |-> can, lof |-> lof, lof_flags |-> flags]
PipeFilters == {NA, Some({}), Some({"RF"})}
Regions == {"high_conf", "lcr", "decoy"}
PipeVariants ==
    { [alleles |-> << <<"A">>, <<"C">> >>,
       vep |-> <<Csq(TRUE, Some("HC"), NA)>>],
      [alleles |-> << <<"A">>, <<"A", "C">> >>,
       vep |-> <<Csq(FALSE, Some("HC"), NA), Csq(TRUE, Some("LC"), Some("flag"))>>] }
PipeRows ==
    { [freq |-> MkFreq(f), filters |-> x, region |-> g,
       alleles |-> v.alleles, vep |-> v.vep] :
        f \in PipeFreqRecords, x \in PipeFilters, g \in Regions, v \in PipeVariants }

IdleBinCnt ==
    /\ freq_expr = <<>>
    /\ index = 0
    /\ label = NA
    /\ grp = <<>>
    /\ prefix_str = ""
    /\ counts = NA

InitPipe ==
    /\ pc = "start"
    /\ \E rows \in SeqsUpTo(PipeRows, MaxRows) :
          input = [rows |-> rows, globals |-> EmptyGlobals]
    /\ filter_decoy \in BOOLEAN
    /\ ht = input
    /\ result = NA
    /\ IdleBinCnt

Step(from, to, t) ==
    /\ pc = from
    /\ pc' = to
    /\ ht' = t
    /\ UNCHANGED <<binVars, cntVars, input, filter_decoy, result>>

FilterPass == Step("start", "pass", filter_pass(ht))
FilterLowConf == Step("pass", "high_conf", filter_low_conf_regions(ht, filter_decoy))
CanonicalTranscripts == Step("high_conf", "canonical", filter_vep_to_canonical_transcripts(ht))
MostSevereConsequence == Step("canonical", "csq", get_most_severe_consequence_for_summary(ht))
AnnotateFreqBin == Step("csq", "binned_rows", annotate_freq_bin(ht))
AnnotateGlobals == Step("binned_rows", "totals", annotate_total_counts(ht))
GroupByAggregate ==
    /\ pc = "totals"
    /\ pc' = "done"
    /\ result' = Some(group_by_freq_bin(ht))
    /\ UNCHANGED <<binVars, cntVars, input, filter_decoy, ht>>

NextPipe ==
    \/ FilterPass
    \/ FilterLowConf
    \/ CanonicalTranscripts
    \/ MostSevereConsequence
    \/ AnnotateFreqBin
    \/ AnnotateGlobals
    \/ GroupByAggregate

SpecPipe == InitPipe /\ [][NextPipe]_vars

\* The whole of get_summary_counts as one function of its arguments.
get_summary_counts(t, decoy) ==
    group_by_freq_bin(
      annotate_total_counts(
        annotate_freq_bin(
          get_most_severe_consequence_for_summary(
            filter_vep_to_canonical_transcripts(
              filter_low_conf_regions(filter_pass(t), decoy))))))

\* The 4-row table of the end-to-end example; what the example leaves open
\* (the AF and alleles of rows 1 and 2, the kind of indel of row 3, the flags
\* of row 4, transcripts that are not canonical) ranges over small sets.
E2EAF == {NA, Some(0), Some(20), Some(500000), Some(990000)}
NoLof == {<<>>, <<Csq(FALSE, Some("HC"), NA)>>}
Indels == {<< <<"A">>, <<"A", "C">> >>, << <<"A", "C">>, <<"A">> >>}
E2ERow(ac, af, alleles, vep) ==
    [freq |-> MkFreq([AC |-> ac, AF |-> af]), filters |-> Some({}),
     region |-> "high_conf", alleles |-> alleles, vep |-> vep]

InitE2E ==
    /\ pc = "start"
    /\ \E af1 \in E2EAF, af2 \in E2EAF, al1 \in AllelePairs, al2 \in AllelePairs,
          v1 \in NoLof, al3 \in Indels, v3 \in NoLof, fl4 \in {NA, Some("flag")} :
          input =
            [rows |->
               << E2ERow(Some(0), af1, al1, v1),
                  E2ERow(Some(1), af2, al2, <<Csq(TRUE, Some("HC"), NA)>>),
                  E2ERow(Some(6), Some(20), al3, v3),
                  E2ERow(Some(1000), Some(990000), << <<"A">>, <<"C">> >>,
                         <<Csq(TRUE, Some("LC"), fl4)>>) >>,
             globals |-> EmptyGlobals]
    /\ filter_decoy \in BOOLEAN
    /\ ht = input
    /\ result = NA
    /\ IdleBinCnt

SpecE2E == InitE2E /\ [][NextPipe]_vars

\* ---------------------------------------------- claims on the pipeline
Done == pc = "done"
Out == result[1]
Totals == Out.globals["summary_counts"]
RECURSIVE SumNumVariants(_)
SumNumVariants(rows) ==
    IF rows = <<>> THEN 0
    ELSE Head(rows)["num_variants"] + SumNumVariants(Tail(rows))
OutRowsOf(L) == {j \in 1..Len(Out.rows) : Out.rows[j]["freq_bin"] = L}

\* C4: the sum of num_variants over the rows of the per-bin result equals
\* total_num_variants of the attached globals; every surviving row has
\* exactly one frequency bin among the output rows.
C4_BinsSumToTotal ==
    Done =>
        /\ SumNumVariants(Out.rows) = Totals["total_num_variants"]
        /\ SumNumVariants(Out.rows) = Len(ht.rows)
        /\ \A i \in 1..Len(ht.rows) :
              Cardinality(OutRowsOf(ht.rows[i].freq_bin)) = 1

C4_Witness ==
    /\ Done
    /\ Len(Out.rows) = 2
    /\ Totals["total_num_variants"] = 2

\* A row of the input that both filters keep.
PassRow(r) == r[filter_field] = Some({})
LowConfKeeps(r) ==
    filter_low_conf_regions([rows |-> <<r>>, globals |-> EmptyGlobals],
                            filter_decoy).rows # <<>>
Survives(r) == PassRow(r) /\ LowConfKeeps(r)
Survivors == SelectSeq(input.rows, Survives)
BinOf(r) == freq_bin_expr(r[freq_field], 0)

\* C6: counting sees only filtered rows.  Once the filters have run the
\* table holds exactly the rows with an empty filter field that the
\* low-confidence filter keeps; the rows that do not survive contribute to no
\* total_ count and to no per-bin count (the result is what the surviving
\* rows alone give), and every surviving row adds 1 to total_num_variants and
\* 1 to num_variants of exactly one bin.
C6_CountsSeeFilteredRows ==
    /\ pc \in {"high_conf", "canonical", "csq", "binned_rows", "totals", "done"} =>
          /\ Len(ht.rows) = Len(Survivors)
          /\ \A i \in 1..Len(ht.rows) :
                /\ ht.rows[i][filter_field] = Some({})
                /\ ht.rows[i].region = Survivors[i].region
                /\ ht.rows[i].freq = Survivors[i].freq
    /\ Done =>
          /\ Out = get_summary_counts([input EXCEPT !.rows = Survivors], filter_decoy)
          /\ Totals["total_num_variants"] = Len(Survivors)
          /\ \A L \in Labels :
                LET inL(r) == BinOf(r) = L
                    n == Len(SelectSeq(Survivors, inL))
                IN  /\ n > 0 => /\ Cardinality(OutRowsOf(L)) = 1
                                /\ \A j \in OutRowsOf(L) : Out.rows[j]["num_variants"] = n
                    /\ n = 0 => OutRowsOf(L) = {}

C6_Witness ==
    /\ Done
    /\ Len(input.rows) = 2
    /\ input.rows[1][filter_field] = Some({"RF"})
    /\ input.rows[2][filter_field] = Some({})
    /\ input.rows[2].region = "high_conf"
    /\ Totals["total_num_variants"] = 1
    /\ Len(Out.rows) = 1

CategorySet == {Categories[k] : k \in 1..Len(Categories)}

\* C7: the result has one row per frequency bin and one column per category:
\* no two output rows carry the same label, every label assigned to a
\* surviving row has an output row, and every output row carries the eight
\* category counts under their unprefixed names.
C7_OneRowPerBin ==
    Done =>
        /\ \A j, k \in 1..Len(Out.rows) :
              Out.rows[j]["freq_bin"] = Out.rows[k]["freq_bin"] => j = k
        /\ \A i \in 1..Len(ht.rows) : OutRowsOf(ht.rows[i].freq_bin) # {}
        /\ \A j \in 1..Len(Out.rows) :
              /\ DOMAIN Out.rows[j] = {"freq_bin"} \cup CategorySet
              /\ \A c \in CategorySet : Out.rows[j][c] \in Nat

C7_Witness ==
    /\ Done
    /\ Len(ht.rows) = 2
    /\ ht.rows[1].freq_bin = ht.rows[2].freq_bin
    /\ Len(Out.rows) = 1
    /\ Out.rows[1]["num_variants"] = 2

\* C9: on the 4-row example the result has exactly the four bins
\* "Not found", "Singleton", "AC 6 - 0.01%" and ">95%", each with
\* num_variants = 1, and total_num_variants = 4, total_fail_loftee = 1,
\* total_pass_loftee_no_flag = 1.
C9_EndToEnd ==
    Done =>
        /\ Len(Out.rows) = 4
        /\ {Out.rows[j]["freq_bin"] : j \in 1..Len(Out.rows)} =
              {"Not found", "Singleton", "AC 6 - 0.01%", ">95%"}
        /\ \A j \in 1..Len(Out.rows) : Out.rows[j]["num_variants"] = 1
        /\ Totals["total_num_variants"] = 4
        /\ Totals["total_fail_loftee"] = 1
        /\ Totals["total_pass_loftee_no_flag"] = 1

C9_Witness ==
    /\ Done
    /\ Len(input.rows) = 4
    /\ Len(Out.rows) = 4
    /\ Totals["total_num_variants"] = 4
    /\ \E j \in 1..4 : Out.rows[j]["freq_bin"] = ">95%" /\ Out.rows[j]["fail_loftee"] = 1

====
